---- MODULE Spec2Model ----
(***************************************************************************)
(* Model of src/main.py: the batch loop of run, the per-company            *)
(* orchestrator scrape_company_tables, the table extractor scrape_table    *)
(* and the workbook merge append_to_excel.                                 *)
(*                                                                         *)
(* The browser, the rendered pages and the file system are the             *)
(* environment: every call into them either succeeds with a value drawn    *)
(* from a small set or raises.  The Chinese literals of the source are     *)
(* written in pinyin.                                                      *)
(***************************************************************************)
EXTENDS Integers, Sequences, FiniteSets, TLC

\* ------------------------------------------------------------- bounds
\* Length of the company list read from test.xlsx (line 188).
NumCompanies == 2

\* Number of append_to_excel calls made when the function is driven alone.
MaxMerges == 3

\* ------------------------------------------------------------- constants
\* scrape_table: max_retries = 5 (line 88).
max_retries == 5

\* Line 99: the seconds slept after a poll that saw the placeholder.
SleepSeconds == 2

\* The identifiers of test.xlsx (line 188); a list longer than these repeats them.
CompanyNames == <<"A_gongsi", "B_gongsi">>

\* The list read at line 188.
InputList == [i \in 1..NumCompanies |-> CompanyNames[((i - 1) % Len(CompanyNames)) + 1]]

\* Texts the first search result may show in its span em (lines 31-32).
MatchedNames == {"A_youxian_gongsi", "B_youxian_gongsi"}

\* table_title of the default table (line 42): "gu dong xin xi".
MainTitle == "gudongxinxi"

\* The candidate tab labels, in the order of the for loop (line 50):
\* "li shi gu dong xin xi", "li shi zhu yao gu dong".
TabLabels == <<"lishigudongxinxi", "lishizhuyaogudong">>

\* Sheet names passed to append_to_excel (lines 44 and 67).
MainSheet == "Shareholders"
HistSheet == "Historical Shareholders"
SheetNames == {MainSheet, HistSheet}

\* ------------------------------------------------------------- rendered markup
\* What table_locator.inner_html() returns (line 93).  loading: the text
\* "jia zai zhong" occurs in it.  sections: thead and tbody are both there.
\* thead: the number of th cells.  tbody: the number of td cells of each tr,
\* in rendered order.  The text of every td of the r-th tr is r.
LoadingMarkup == [loading |-> TRUE, sections |-> TRUE, thead |-> 1, tbody |-> <<>>]

\* Loaded markup with a section missing: soup.find(...) is None (lines 108, 110).
BrokenMarkup == [loading |-> FALSE, sections |-> FALSE, thead |-> 1, tbody |-> <<>>]

\* The loaded tables a detail view may render: two full rows and a short
\* one, one full row after a long one, and an empty body.
LoadedMarkups ==
    { [loading |-> FALSE, sections |-> TRUE, thead |-> 2, tbody |-> <<2, 1, 2>>],
      [loading |-> FALSE, sections |-> TRUE, thead |-> 1, tbody |-> <<2, 1>>],
      [loading |-> FALSE, sections |-> TRUE, thead |-> 1, tbody |-> <<>>],
      BrokenMarkup }

\* ------------------------------------------------------------- data frames
\* A DataFrame, or None (is_none).  A row is the sequence of its cells; the
\* header of column j is the same text in every table, so a row keeps its
\* cells through pd.concat's alignment by column name.
None == [is_none |-> TRUE, rows |-> <<>>]
DataFrame(rows) == [is_none |-> FALSE, rows |-> rows]

\* A sheet of the workbook file: absent, or its data rows below the header.
NoSheet == [present |-> FALSE, rows |-> <<>>]
Sheet(rows) == [present |-> TRUE, rows |-> rows]

\* The workbook file L1_share.xlsx before the run: it does not exist.
NoFile == [exists |-> FALSE, sheets |-> [s \in SheetNames |-> NoSheet]]

\* ------------------------------------------------------------- scrape_table: parsing
\* cols of the r-th tr of tbody (line 111).
Cols(table_html, r) == [c \in 1..table_html.tbody[r] |-> r]

\* ParsedRows without the test of line 112: every tr is appended.
ParsedRows_keeps_all(table_html) ==
    [i \in 1..Len(table_html.tbody) |-> Cols(table_html, i)]

\* The rows list built by the loop over tbody (lines 109-115): a tr is
\* appended only when it has as many td as thead has th.
ParsedRows(table_html) ==
    LET F[i \in 0..Len(table_html.tbody)] ==
            IF i = 0 THEN <<>>
            ELSE IF Len(Cols(table_html, i)) = table_html.thead
                 THEN Append(F[i - 1], Cols(table_html, i))
                 ELSE F[i - 1]
    IN  F[Len(table_html.tbody)]

\* InsertNames with matched_name given to both insert calls.
InsertNames_matched_twice(rows, original_name, matched_name) ==
    [i \in 1..Len(rows) |-> <<matched_name, matched_name>> \o rows[i]]

\* df.insert(0, ...), df.insert(1, ...) (lines 119-120): the two names lead every row.
InsertNames(rows, original_name, matched_name) ==
    [i \in 1..Len(rows) |-> <<original_name, matched_name>> \o rows[i]]

\* parse_table with the except clause of line 122 returning an empty frame.
parse_table_empty_frame(table_html, original_name, matched_name) ==
    IF ~table_html.sections
    THEN DataFrame(<<>>)
    ELSE DataFrame(InsertNames(ParsedRows(table_html), original_name, matched_name))

\* Lines 105-124 on loaded markup: the DataFrame, or None when soup.find
\* gives None for a section and the attribute access raises.
parse_table(table_html, original_name, matched_name) ==
    IF ~table_html.sections
    THEN None
    ELSE DataFrame(InsertNames(ParsedRows(table_html), original_name, matched_name))

\* ------------------------------------------------------------- append_to_excel
\* Lines 132-133: a new file whose only sheet is sheet_name.
to_excel_new(df, sheet_name) ==
    [exists |-> TRUE,
     sheets |-> [s \in SheetNames |-> IF s = sheet_name THEN Sheet(df.rows) ELSE NoSheet]]

\* Line 138 when it does not raise: the data rows of the sheet.
read_excel(book, sheet_name) == DataFrame(book.sheets[sheet_name].rows)

\* concat followed by drop_duplicates: a new row equal to a stored one is left out.
concat_drop_duplicates(existing_df, df) ==
    DataFrame(existing_df.rows \o
              SelectSeq(df.rows,
                        LAMBDA r : r \notin {existing_df.rows[i] :
                                                i \in 1..Len(existing_df.rows)}))

\* concat with its list written [df, existing_df].
concat_new_first(existing_df, df) == DataFrame(df.rows \o existing_df.rows)

\* Line 143: pd.concat([existing_df, df], ignore_index=True).
concat(existing_df, df) == DataFrame(existing_df.rows \o df.rows)

\* to_excel_replace with the writer opened in mode "w": the file is made anew.
to_excel_truncating(book, df, sheet_name) == to_excel_new(df, sheet_name)

\* Lines 145-146: mode "a" with if_sheet_exists="replace" rewrites the one sheet.
to_excel_replace(book, df, sheet_name) ==
    [book EXCEPT !.sheets[sheet_name] = Sheet(df.rows)]

\* Lines 136-140: read_excel raises when the sheet is absent, and may raise
\* on a sheet that is there (read_raises); either way existing_df stays None.
ExistingDf(book, sheet_name, read_raises) ==
    IF read_raises \/ ~book.sheets[sheet_name].present
    THEN None
    ELSE read_excel(book, sheet_name)

\* Lines 142-143.
ToWrite(existing_df, df) ==
    IF ~existing_df.is_none THEN concat(existing_df, df) ELSE df

\* Lines 127-149: the workbook after the call.  A raise of the writer
\* (write_raises) is caught at line 148 and leaves the file as it was.
append_to_excel(book, df, sheet_name, read_raises, write_raises) ==
    IF ~book.exists
    THEN IF write_raises THEN book ELSE to_excel_new(df, sheet_name)
    ELSE IF write_raises
         THEN book
         ELSE to_excel_replace(book,
                               ToWrite(ExistingDf(book, sheet_name, read_raises), df),
                               sheet_name)

\* ------------------------------------------------------------- state
VARIABLES
    company_list,       \* run: the list read at line 188
    idx,                \* run: position of the for loop of line 191 in company_list
    pc,                 \* the statement the single thread of control is at
    fatal,              \* positions whose company had no result or raised in lines 19-44
    failures,           \* positions whose company was logged at line 28 or line 72
    completed,          \* positions whose try body (lines 18-69) ran to its end
    workbook,           \* the file L1_share.xlsx
    merged,             \* per sheet, the rows of every snapshot a call wrote, in call order
    io,                 \* what the latest step, if an append_to_excel call, met, and
                        \* how often it opened a writer (lines 132, 145)
    popup_bound,        \* scrape_company_tables: popup_page is assigned (line 36)
    popup_open,         \* the detail view of this invocation is open
    company_name_text,  \* scrape_company_tables local (line 32)
    df_shareholders,    \* scrape_company_tables local (line 42)
    df_historical,      \* scrape_company_tables local (line 65)
    tab_found,          \* scrape_company_tables local (line 49)
    tab_text,           \* scrape_company_tables local, the loop variable of line 50
    tab_attempts,       \* labels whose click was attempted in this invocation, in order
    merge_calls,        \* sheets append_to_excel was called with in this invocation, in order
    close_calls,        \* popup_page.close() statements run in this invocation (line 76)
    close_error,        \* the statement of line 76 raised in this invocation
    goto_calls,         \* page.goto calls of this invocation (line 79)
    exit_from,          \* the pc at which this invocation left its try body
    steps,              \* this invocation's finished extractions, tab clicks, close and goto, in order
    caller,             \* scrape_table: which call site it returns to
    table_title,        \* scrape_table parameter
    retries,            \* scrape_table local (line 89)
    table_loaded,       \* scrape_table local (line 90)
    table_html,         \* scrape_table local (line 93)
    polls,              \* inner_html() calls of the current scrape_table call
    sleeps              \* time.sleep(2) calls of the current scrape_table call

batch_vars == <<company_list, idx, fatal, failures, completed>>
book_vars == <<workbook, merged>>
popup_vars == <<popup_bound, popup_open>>
local_vars == <<company_name_text, df_shareholders, df_historical, tab_found, tab_text,
                tab_attempts, merge_calls>>
final_vars == <<close_calls, close_error, goto_calls, exit_from>>
scrape_vars == <<caller, table_title, retries, table_loaded, table_html, polls, sleeps>>

vars == <<batch_vars, pc, book_vars, io, popup_vars, local_vars, final_vars, steps,
          scrape_vars>>

\* The latest step was no append_to_excel call.
NoIO == [sheet |-> "", file_existed |-> FALSE, sheet_existed |-> FALSE,
         read_raised |-> FALSE, write_raised |-> FALSE, writes |-> 0]

\* Fresh locals of scrape_company_tables other than popup_page; the finally
\* block (lines 74-79) reads none of them.
FreshLocals ==
    /\ company_name_text' = ""
    /\ df_shareholders' = None
    /\ df_historical' = None
    /\ tab_found' = FALSE
    /\ tab_text' = ""
    /\ tab_attempts' = <<>>
    /\ merge_calls' = <<>>

\* No scrape_table call is active.
NoFrame ==
    /\ caller' = ""
    /\ table_title' = ""
    /\ retries' = 0
    /\ table_loaded' = FALSE
    /\ table_html' = LoadingMarkup
    /\ polls' = 0
    /\ sleeps' = 0

\* run reaches its for loop (line 191) with the list of line 188; the
\* workbook file of the run is not there yet.
Init ==
    /\ company_list = InputList
    /\ idx = 1
    /\ pc = "run"
    /\ fatal = {}
    /\ failures = {}
    /\ completed = {}
    /\ workbook = NoFile
    /\ merged = [s \in SheetNames |-> <<>>]
    /\ io = NoIO
    /\ popup_bound = FALSE
    /\ popup_open = FALSE
    /\ company_name_text = ""
    /\ df_shareholders = None
    /\ df_historical = None
    /\ tab_found = FALSE
    /\ tab_text = ""
    /\ tab_attempts = <<>>
    /\ merge_calls = <<>>
    /\ close_calls = 0
    /\ close_error = FALSE
    /\ goto_calls = 0
    /\ exit_from = ""
    /\ steps = <<>>
    /\ caller = ""
    /\ table_title = ""
    /\ retries = 0
    /\ table_loaded = FALSE
    /\ table_html = LoadingMarkup
    /\ polls = 0
    /\ sleeps = 0

\* ------------------------------------------------------------- run
\* Lines 191-192: the loop calls scrape_company_tables for the next company.
RunNext ==
    /\ pc = "run"
    /\ idx <= Len(company_list)
    /\ pc' = "search"
    /\ io' = NoIO
    /\ popup_bound' = FALSE
    /\ popup_open' = FALSE
    /\ FreshLocals
    /\ close_calls' = 0
    /\ close_error' = FALSE
    /\ goto_calls' = 0
    /\ exit_from' = ""
    /\ UNCHANGED <<batch_vars, book_vars, scrape_vars>>
    /\ steps' = <<>>

\* Lines 191, 196-200: the list is exhausted; run closes the browser and returns.
RunEnd ==
    /\ pc = "run"
    /\ idx > Len(company_list)
    /\ pc' = "done"
    /\ UNCHANGED <<batch_vars, book_vars, io, popup_vars, local_vars, final_vars, scrape_vars>>
    /\ UNCHANGED steps

\* Lines 194-200: an exception that left scrape_company_tables ends the for
\* loop; it is logged as critical, the browser is closed and run returns.
RunAbort ==
    /\ pc = "raised"
    /\ pc' = "done"
    /\ UNCHANGED <<batch_vars, book_vars, io, popup_vars, local_vars, final_vars, scrape_vars>>
    /\ UNCHANGED steps

\* ------------------------------------------------------------- scrape_company_tables
\* Except with the exception raised again after it is logged: it leaves
\* scrape_company_tables without the finally block's page.goto having raised.
Except_reraises ==
    /\ failures' = failures \cup {idx}
    /\ exit_from' = pc
    /\ pc' = "raised"
    /\ io' = NoIO
    /\ FreshLocals
    /\ NoFrame
    /\ UNCHANGED <<company_list, idx, completed, book_vars,
                   close_calls, close_error, goto_calls>>

\* Lines 71-72 then 74: the except clause logs the company as an error and
\* control enters the finally block.
Except ==
    /\ failures' = failures \cup {idx}
    /\ exit_from' = pc
    /\ pc' = "close"
    /\ io' = NoIO
    /\ FreshLocals
    /\ NoFrame
    /\ UNCHANGED <<company_list, idx, completed, book_vars,
                   close_calls, close_error, goto_calls>>

\* Lines 19-23: the search box is filled and submitted.
SearchOk ==
    /\ pc = "search"
    /\ pc' = "link"
    /\ io' = NoIO
    /\ UNCHANGED <<batch_vars, book_vars, popup_vars, local_vars, final_vars, scrape_vars>>
    /\ UNCHANGED steps

\* Lines 20-22: fill or press raises.
SearchRaises ==
    /\ pc = "search"
    /\ fatal' = fatal \cup {idx}
    /\ Except
    /\ UNCHANGED popup_vars
    /\ UNCHANGED steps

\* Lines 26-32: the first result link is there and its span em text is read.
LinkFound ==
    /\ pc = "link"
    /\ \E m \in MatchedNames : company_name_text' = m
    /\ pc' = "popup"
    /\ io' = NoIO
    /\ UNCHANGED <<batch_vars, book_vars, popup_vars, df_shareholders, df_historical,
                   tab_found, tab_text, tab_attempts, merge_calls, final_vars, scrape_vars>>
    /\ UNCHANGED steps

\* LinkNoResult with the return placed outside the try statement: the
\* function returns to the loop without running the finally block.
LinkNoResult_skips_finally ==
    /\ pc = "link"
    /\ fatal' = fatal \cup {idx}
    /\ failures' = failures \cup {idx}
    /\ exit_from' = "return"
    /\ idx' = idx + 1
    /\ pc' = "run"
    /\ io' = NoIO
    /\ UNCHANGED <<company_list, completed, book_vars, popup_vars, local_vars,
                   close_calls, close_error, goto_calls, scrape_vars>>
    /\ UNCHANGED steps

\* Lines 27-29, 74: company_link is falsy; a warning is logged and the
\* function returns through the finally block.
LinkNoResult ==
    /\ pc = "link"
    /\ fatal' = fatal \cup {idx}
    /\ failures' = failures \cup {idx}
    /\ exit_from' = "return"
    /\ pc' = "close"
    /\ io' = NoIO
    /\ UNCHANGED <<company_list, idx, completed, book_vars, popup_vars, local_vars,
                   close_calls, close_error, goto_calls, scrape_vars>>
    /\ UNCHANGED steps

\* Line 32: no element matches and text_content() raises.
LinkRaises ==
    /\ pc = "link"
    /\ fatal' = fatal \cup {idx}
    /\ Except
    /\ UNCHANGED popup_vars
    /\ UNCHANGED steps

\* PopupOpens with the call of line 42 left out: the tab loop comes first.
PopupOpens_skips_main ==
    /\ pc = "popup"
    /\ popup_bound' = TRUE
    /\ popup_open' = TRUE
    /\ pc' = "tabs"
    /\ io' = NoIO
    /\ UNCHANGED <<batch_vars, book_vars, local_vars, final_vars, scrape_vars>>
    /\ UNCHANGED steps

\* Lines 34-39: the click opens the detail view and it loads.
PopupOpens ==
    /\ pc = "popup"
    /\ popup_bound' = TRUE
    /\ popup_open' = TRUE
    /\ pc' = "main"
    /\ io' = NoIO
    /\ UNCHANGED <<batch_vars, book_vars, local_vars, final_vars, scrape_vars>>
    /\ UNCHANGED steps

\* Lines 34-35: the click raises or no popup comes; popup_page is never assigned.
PopupClickRaises ==
    /\ pc = "popup"
    /\ fatal' = fatal \cup {idx}
    /\ Except
    /\ UNCHANGED popup_vars
    /\ UNCHANGED steps

\* Lines 36-37: popup_page is assigned, then wait_for_load_state raises.
PopupLoadRaises ==
    /\ pc = "popup"
    /\ popup_bound' = TRUE
    /\ popup_open' = TRUE
    /\ fatal' = fatal \cup {idx}
    /\ Except
    /\ UNCHANGED steps

\* Line 39: the logging statement between the popup and the first call raises.
BodyRaises ==
    /\ pc = "main"
    /\ fatal' = fatal \cup {idx}
    /\ Except
    /\ UNCHANGED popup_vars
    /\ UNCHANGED steps

\* ------------------------------------------------------------- scrape_table
\* Lines 81-90: entry of a call for the table named title.
Enter(site, title) ==
    /\ caller' = site
    /\ table_title' = title
    /\ retries' = 0
    /\ table_loaded' = FALSE
    /\ table_html' = LoadingMarkup
    /\ polls' = 0
    /\ sleeps' = 0
    /\ pc' = "poll"

\* Lines 42 and 65: the value returned is bound at the call site.
Return(df) ==
    /\ IF caller = "main"
       THEN /\ df_shareholders' = df
            /\ pc' = "main_merge"
            /\ UNCHANGED df_historical
       ELSE /\ df_historical' = df
            /\ pc' = "hist_merge"
            /\ UNCHANGED df_shareholders
    /\ table_html' = LoadingMarkup
    /\ io' = NoIO
    /\ UNCHANGED <<batch_vars, book_vars, popup_vars, company_name_text, tab_found,
                   tab_text, tab_attempts, merge_calls, final_vars, caller, table_title>>
    /\ steps' = Append(steps, caller)

\* Line 42: scrape_table is called for the default table.
ScrapeMain ==
    /\ pc = "main"
    /\ Enter("main", MainTitle)
    /\ io' = NoIO
    /\ UNCHANGED <<batch_vars, book_vars, popup_vars, local_vars, final_vars>>
    /\ UNCHANGED steps

\* PollLoading without the increment of line 98.
PollLoading_forgets_increment ==
    /\ pc = "poll"
    /\ retries < max_retries
    /\ table_html' = LoadingMarkup
    /\ polls' = polls + 1
    /\ sleeps' = sleeps + 1
    /\ io' = NoIO
    /\ UNCHANGED <<batch_vars, pc, book_vars, popup_vars, local_vars, final_vars,
                   caller, table_title, table_loaded, retries>>
    /\ UNCHANGED steps

\* PollLoading with the loop test written retries <= max_retries.
PollLoading_one_more ==
    /\ pc = "poll"
    /\ retries <= max_retries
    /\ table_html' = LoadingMarkup
    /\ polls' = polls + 1
    /\ retries' = retries + 1
    /\ sleeps' = sleeps + 1
    /\ io' = NoIO
    /\ UNCHANGED <<batch_vars, pc, book_vars, popup_vars, local_vars, final_vars,
                   caller, table_title, table_loaded>>
    /\ UNCHANGED steps

\* Lines 92-99: a poll whose markup holds the loading placeholder.
PollLoading ==
    /\ pc = "poll"
    /\ retries < max_retries
    /\ table_html' = LoadingMarkup
    /\ polls' = polls + 1
    /\ retries' = retries + 1
    /\ sleeps' = sleeps + 1
    /\ io' = NoIO
    /\ UNCHANGED <<batch_vars, pc, book_vars, popup_vars, local_vars, final_vars,
                   caller, table_title, table_loaded>>
    /\ UNCHANGED steps

\* PollLoaded with the sleep of line 99 taken before the test of line 94.
PollLoaded_sleeps_first ==
    /\ pc = "poll"
    /\ retries < max_retries
    /\ \E html \in LoadedMarkups : table_html' = html
    /\ polls' = polls + 1
    /\ sleeps' = sleeps + 1
    /\ table_loaded' = TRUE
    /\ pc' = "parse"
    /\ io' = NoIO
    /\ UNCHANGED <<batch_vars, book_vars, popup_vars, local_vars, final_vars,
                   caller, table_title, retries>>
    /\ UNCHANGED steps

\* Lines 92-96: a poll whose markup has no placeholder ends the loop.
PollLoaded ==
    /\ pc = "poll"
    /\ retries < max_retries
    /\ \E html \in LoadedMarkups : table_html' = html
    /\ polls' = polls + 1
    /\ table_loaded' = TRUE
    /\ pc' = "parse"
    /\ io' = NoIO
    /\ UNCHANGED <<batch_vars, book_vars, popup_vars, local_vars, final_vars,
                   caller, table_title, retries, sleeps>>
    /\ UNCHANGED steps

\* Lines 93, 122-124: inner_html() raises; the except clause returns None.
PollRaises ==
    /\ pc = "poll"
    /\ retries < max_retries
    /\ polls' = polls + 1
    /\ Return(None)
    /\ UNCHANGED <<retries, table_loaded, sleeps>>

\* Lines 92, 101-103: the loop ends with table_loaded False; None is returned.
PollExhausted ==
    /\ pc = "poll"
    /\ ~(retries < max_retries)
    /\ Return(None)
    /\ UNCHANGED <<retries, table_loaded, polls, sleeps>>

\* Lines 105-124: the markup of the last poll is parsed and the result returned.
Parse ==
    /\ pc = "parse"
    /\ Return(parse_table(table_html, company_list[idx], company_name_text))
    /\ UNCHANGED <<retries, table_loaded, polls, sleeps>>

\* ------------------------------------------------------------- the two merges
\* The failures the file system can show a call: line 138 is reached only
\* when the file exists, and always raises when the sheet is absent.
ReadOutcomes(book, sheet_name) ==
    IF ~book.exists THEN {FALSE}
    ELSE IF book.sheets[sheet_name].present THEN BOOLEAN ELSE {TRUE}

\* A call append_to_excel(df, output_file, sheet_name) from the orchestrator.
Merge(df, sheet_name) ==
    \E read_raises \in ReadOutcomes(workbook, sheet_name), write_raises \in BOOLEAN :
        /\ workbook' = append_to_excel(workbook, df, sheet_name, read_raises, write_raises)
        /\ merged' = IF write_raises THEN merged
                     ELSE [merged EXCEPT ![sheet_name] = @ \o df.rows]
        /\ io' = [sheet |-> sheet_name,
                  file_existed |-> workbook.exists,
                  sheet_existed |-> workbook.sheets[sheet_name].present,
                  read_raised |-> read_raises,
                  write_raised |-> write_raises,
                  writes |-> 1]
        /\ merge_calls' = Append(merge_calls, sheet_name)

\* MainMerge with the handler of line 148 missing: a raise of the writer
\* reaches the except clause of line 71.
MainMerge_propagates ==
    /\ pc = "main_merge"
    /\ ~df_shareholders.is_none
    /\ Merge(df_shareholders, MainSheet)
    /\ tab_found' = FALSE
    /\ pc' = IF io'.write_raised THEN "close" ELSE "tabs"
    /\ NoFrame
    /\ UNCHANGED <<batch_vars, popup_vars, company_name_text, df_shareholders,
                   df_historical, tab_text, tab_attempts, final_vars>>
    /\ UNCHANGED steps

\* Lines 43-44, 47-49: the main snapshot is merged; the historical attempt begins.
MainMerge ==
    /\ pc = "main_merge"
    /\ ~df_shareholders.is_none
    /\ Merge(df_shareholders, MainSheet)
    /\ tab_found' = FALSE
    /\ pc' = "tabs"
    /\ NoFrame
    /\ UNCHANGED <<batch_vars, popup_vars, company_name_text, df_shareholders,
                   df_historical, tab_text, tab_attempts, final_vars>>
    /\ UNCHANGED steps

\* MainSkip leaving the body when df_shareholders is None.
MainSkip_to_cleanup ==
    /\ pc = "main_merge"
    /\ df_shareholders.is_none
    /\ tab_found' = FALSE
    /\ pc' = "end"
    /\ io' = NoIO
    /\ NoFrame
    /\ UNCHANGED <<batch_vars, book_vars, popup_vars, company_name_text, df_shareholders,
                   df_historical, tab_text, tab_attempts, merge_calls, final_vars>>
    /\ UNCHANGED steps

\* Lines 43, 47-49: df_shareholders is None; nothing is merged.
MainSkip ==
    /\ pc = "main_merge"
    /\ df_shareholders.is_none
    /\ tab_found' = FALSE
    /\ pc' = "tabs"
    /\ io' = NoIO
    /\ NoFrame
    /\ UNCHANGED <<batch_vars, book_vars, popup_vars, company_name_text, df_shareholders,
                   df_historical, tab_text, tab_attempts, merge_calls, final_vars>>
    /\ UNCHANGED steps

\* ------------------------------------------------------------- historical attempt
\* The label the for loop of line 50 is at.
NextTab == Len(tab_attempts) + 1

\* Lines 52-57: the click on the label succeeds; the loop breaks.
TabActivates ==
    /\ pc = "tabs"
    /\ tab_text' = TabLabels[NextTab]
    /\ tab_attempts' = Append(tab_attempts, NextTab)
    /\ tab_found' = TRUE
    /\ pc' = "hist"
    /\ io' = NoIO
    /\ UNCHANGED <<batch_vars, book_vars, popup_vars, company_name_text, df_shareholders,
                   df_historical, merge_calls, final_vars, scrape_vars>>
    /\ steps' = Append(steps, "tab")

\* TabRaises with a break in the except clause of line 58: no later label is tried.
TabRaises_gives_up ==
    /\ pc = "tabs"
    /\ tab_text' = TabLabels[NextTab]
    /\ tab_attempts' = Append(tab_attempts, NextTab)
    /\ pc' = "hist"
    /\ io' = NoIO
    /\ UNCHANGED <<batch_vars, book_vars, popup_vars, company_name_text, df_shareholders,
                   df_historical, tab_found, merge_calls, final_vars, scrape_vars>>
    /\ steps' = Append(steps, "tab")

\* Lines 52-53, 58-59: the attempt raises; the loop goes on to the next label.
TabRaises ==
    /\ pc = "tabs"
    /\ tab_text' = TabLabels[NextTab]
    /\ tab_attempts' = Append(tab_attempts, NextTab)
    /\ pc' = IF NextTab < Len(TabLabels) THEN "tabs" ELSE "hist"
    /\ io' = NoIO
    /\ UNCHANGED <<batch_vars, book_vars, popup_vars, company_name_text, df_shareholders,
                   df_historical, tab_found, merge_calls, final_vars, scrape_vars>>
    /\ steps' = Append(steps, "tab")

\* Lines 61-62: no label was activated; an error is logged, nothing is scraped.
HistNoTab ==
    /\ pc = "hist"
    /\ ~tab_found
    /\ pc' = "end"
    /\ io' = NoIO
    /\ UNCHANGED <<batch_vars, book_vars, popup_vars, local_vars, final_vars, scrape_vars>>
    /\ UNCHANGED steps

\* Lines 63-65: scrape_table is called with the activated label as its title.
ScrapeHist ==
    /\ pc = "hist"
    /\ tab_found
    /\ Enter("hist", tab_text)
    /\ io' = NoIO
    /\ UNCHANGED <<batch_vars, book_vars, popup_vars, local_vars, final_vars>>
    /\ UNCHANGED steps

\* HistMerge with the sheet name of line 44 left in the call of line 67.
HistMerge_main_sheet ==
    /\ pc = "hist_merge"
    /\ ~df_historical.is_none
    /\ Merge(df_historical, MainSheet)
    /\ pc' = "end"
    /\ NoFrame
    /\ UNCHANGED <<batch_vars, popup_vars, company_name_text, df_shareholders,
                   df_historical, tab_found, tab_text, tab_attempts, final_vars>>
    /\ UNCHANGED steps

\* Lines 66-67: the historical snapshot is merged.
HistMerge ==
    /\ pc = "hist_merge"
    /\ ~df_historical.is_none
    /\ Merge(df_historical, HistSheet)
    /\ pc' = "end"
    /\ NoFrame
    /\ UNCHANGED <<batch_vars, popup_vars, company_name_text, df_shareholders,
                   df_historical, tab_found, tab_text, tab_attempts, final_vars>>
    /\ UNCHANGED steps

\* Line 66: df_historical is None; nothing is merged.
HistSkip ==
    /\ pc = "hist_merge"
    /\ df_historical.is_none
    /\ pc' = "end"
    /\ io' = NoIO
    /\ NoFrame
    /\ UNCHANGED <<batch_vars, book_vars, popup_vars, local_vars, final_vars>>
    /\ UNCHANGED steps

\* Lines 48, 59, 62, 68-69: a logging statement of the inner try raises; the
\* except clause of line 68 logs it.
HistRaises ==
    /\ pc \in {"tabs", "hist"}
    /\ pc' = "end"
    /\ io' = NoIO
    /\ NoFrame
    /\ UNCHANGED <<batch_vars, book_vars, popup_vars, local_vars, final_vars>>
    /\ UNCHANGED steps

\* Lines 69-74: the try body has run to its end; control enters the finally block.
EndBody ==
    /\ pc = "end"
    /\ completed' = completed \cup {idx}
    /\ exit_from' = "end"
    /\ pc' = "close"
    /\ io' = NoIO
    /\ FreshLocals
    /\ UNCHANGED <<company_list, idx, fatal, failures, book_vars, popup_vars,
                   close_calls, close_error, goto_calls, scrape_vars>>
    /\ UNCHANGED steps

\* ------------------------------------------------------------- finally block
\* Lines 75-76: popup_page is bound and close() closes the detail view.
ClosePopup ==
    /\ pc = "close"
    /\ popup_bound
    /\ popup_open' = FALSE
    /\ close_calls' = close_calls + 1
    /\ pc' = "goto"
    /\ io' = NoIO
    /\ UNCHANGED <<batch_vars, book_vars, popup_bound, local_vars,
                   close_error, goto_calls, exit_from, scrape_vars>>
    /\ steps' = Append(steps, "close")

\* Lines 75-78: popup_page is unbound, or close() raises; the error is passed over.
CloseRaises ==
    /\ pc = "close"
    /\ close_calls' = close_calls + 1
    /\ close_error' = TRUE
    /\ pc' = "goto"
    /\ io' = NoIO
    /\ UNCHANGED <<batch_vars, book_vars, popup_vars, local_vars,
                   goto_calls, exit_from, scrape_vars>>
    /\ steps' = Append(steps, "close")

\* Line 79: the primary page is back at the landing page; the call returns to the loop.
GotoOk ==
    /\ pc = "goto"
    /\ goto_calls' = goto_calls + 1
    /\ idx' = idx + 1
    /\ pc' = "run"
    /\ io' = NoIO
    /\ UNCHANGED <<company_list, fatal, failures, completed, book_vars, popup_vars,
                   local_vars, close_calls, close_error, exit_from, scrape_vars>>
    /\ steps' = Append(steps, "goto")

\* Line 79: page.goto raises inside the finally block; nothing in
\* scrape_company_tables catches it and it reaches run.
GotoRaises ==
    /\ pc = "goto"
    /\ goto_calls' = goto_calls + 1
    /\ pc' = "raised"
    /\ io' = NoIO
    /\ UNCHANGED <<batch_vars, book_vars, popup_vars, local_vars,
                   close_calls, close_error, exit_from, scrape_vars>>
    /\ steps' = Append(steps, "goto")

\* ------------------------------------------------------------- specification
Next ==
    \/ RunNext \/ RunEnd \/ RunAbort
    \/ SearchOk \/ SearchRaises
    \/ LinkFound \/ LinkNoResult \/ LinkRaises
    \/ PopupOpens \/ PopupClickRaises \/ PopupLoadRaises
    \/ BodyRaises
    \/ ScrapeMain \/ PollLoading \/ PollLoaded \/ PollRaises \/ PollExhausted \/ Parse
    \/ MainMerge \/ MainSkip
    \/ TabActivates \/ TabRaises
    \/ HistNoTab \/ ScrapeHist \/ HistMerge \/ HistSkip \/ HistRaises \/ EndBody
    \/ ClosePopup \/ CloseRaises
    \/ GotoOk \/ GotoRaises

Spec == Init /\ [][Next]_vars

\* ------------------------------------------------------------- append_to_excel alone
\* The snapshots scrape_table can hand to append_to_excel for one company.
MergeInputs ==
    {parse_table(html, CompanyNames[1], "A_youxian_gongsi") :
        html \in LoadedMarkups \ {BrokenMarkup}}

\* Lines 127-149: one call append_to_excel(df, output_file, sheet_name) with
\* any snapshot and either sheet name, the arguments kept where the
\* orchestrator holds them.
MergeCall ==
    /\ Len(merge_calls) < MaxMerges
    /\ \E sheet_name \in SheetNames, df \in MergeInputs :
          /\ Merge(df, sheet_name)
          /\ IF sheet_name = MainSheet
             THEN df_shareholders' = df /\ UNCHANGED df_historical
             ELSE df_historical' = df /\ UNCHANGED df_shareholders
    /\ UNCHANGED <<batch_vars, pc, popup_vars, company_name_text, tab_found, tab_text,
                   tab_attempts, final_vars, steps, scrape_vars>>

\* Any sequence of up to MaxMerges calls on a workbook that starts absent.
SpecMerge == Init /\ [][MergeCall]_vars

\* ------------------------------------------------------------- helpers of the properties
\* The elements of a sequence.
Range(seq) == {seq[i] : i \in 1..Len(seq)}

\* a occurs in b as a subsequence: every row of a is in b, in the order of a.
RECURSIVE IsSubseq(_, _)
IsSubseq(a, b) ==
    IF a = <<>> THEN TRUE
    ELSE IF b = <<>> THEN FALSE
    ELSE IF Head(a) = Head(b) THEN IsSubseq(Tail(a), Tail(b))
    ELSE IsSubseq(a, Tail(b))

\* The step just taken was an append_to_excel call that met no I/O failure:
\* the writer did not raise, and read_excel raised only for an absent sheet.
CleanMerge(o) == o.sheet # "" /\ ~o.write_raised /\ ~(o.sheet_existed /\ o.read_raised)

\* The snapshot the call of the step just taken was given.
Snapshot(o) == IF o.sheet = MainSheet THEN df_shareholders ELSE df_historical

\* The pcs of the historical attempt (lines 47-69).
InHistorical ==
    \/ pc \in {"tabs", "hist", "hist_merge"}
    \/ pc \in {"poll", "parse"} /\ caller = "hist"

\* The invocation for company idx has left its finally block.
Left == pc \in {"run", "raised", "done"} /\ exit_from # ""

\* ------------------------------------------------------------- C1
\* C1: no step shrinks or reorders a sheet: the rows a sheet holds before a
\* step are, in the same relative order, among the rows it holds after it,
\* also when the step is a merge whose read of the sheet raises.
C1_MergeKeepsStoredRows ==
    [][\A s \in SheetNames :
          IsSubseq(workbook.sheets[s].rows, workbook'.sheets[s].rows)]_vars

\* ------------------------------------------------------------- C2
\* C2: when run has returned, the orchestrator has been invoked for every
\* company of the list, whatever was raised in an invocation.
C2_EveryCompanyInvoked == pc = "done" => idx > Len(company_list)

\* ------------------------------------------------------------- C3
\* C3: a fatal condition of a company (no result, a raise while searching,
\* opening the detail view or in the try body) is reported for that company
\* and for no other, sends it to the finally block and never leaves the
\* orchestrator: only the page.goto of line 79 does.  Each company returned
\* from is either reported or has run its try body to the end, and one that
\* reaches the end has passed every snapshot that is not None to a merge.
C3_PerCompanyIsolation ==
    /\ failures = fatal
    /\ failures \cap completed = {}
    /\ pc = "raised" => goto_calls = 1
    /\ pc = "run" \/ (pc = "done" /\ idx > Len(company_list))
           => failures \cup completed = 1..(idx - 1)
    /\ pc = "end" =>
           /\ ~df_shareholders.is_none => MainSheet \in Range(merge_calls)
           /\ ~df_historical.is_none => HistSheet \in Range(merge_calls)

\* A run that ended with the first company reported and the second one
\* completed, its main snapshot written.
C3_Witness ==
    /\ pc = "done"
    /\ failures = {1}
    /\ completed = {2}
    /\ Len(workbook.sheets[MainSheet].rows) > 0

\* ------------------------------------------------------------- C4
\* C4: in every invocation the finally block runs once, whatever the exit
\* from the try body: nothing of it runs before the exit, the close
\* statement runs once and before page.goto, page.goto is called once, and
\* a detail view that was opened is closed unless the close statement raised.
C4_CleanupAlways ==
    /\ pc \notin {"close", "goto", "run", "raised", "done"}
           => close_calls = 0 /\ goto_calls = 0
    /\ pc = "close" => close_calls = 0 /\ goto_calls = 0 /\ exit_from # ""
    /\ pc = "goto" => close_calls = 1 /\ goto_calls = 0
    /\ Left => close_calls = 1 /\ goto_calls = 1
    /\ (pc = "goto" \/ Left) /\ popup_open => close_error

\* The orchestrator has returned after a raise with the detail view open:
\* the view is closed and the landing page was navigated to once.
C4_Witness ==
    /\ pc = "run"
    /\ exit_from = "popup"
    /\ popup_bound
    /\ ~popup_open
    /\ close_calls = 1
    /\ goto_calls = 1

\* ------------------------------------------------------------- C5
\* C5: a scrape_table call never polls more than max_retries = 5 times, and
\* a call all of whose polls saw the placeholder has returned None after
\* exactly 5 polls.
C5_PollsBounded ==
    /\ polls <= max_retries
    /\ pc \in {"main_merge", "hist_merge"} /\ polls = retries =>
           /\ polls = 5
           /\ ~table_loaded
           /\ (IF caller = "main" THEN df_shareholders ELSE df_historical) = None

\* The main call returned after five polls that all saw the placeholder.
C5_Witness ==
    /\ pc = "main_merge"
    /\ caller = "main"
    /\ polls = 5
    /\ retries = 5
    /\ df_shareholders = None

\* ------------------------------------------------------------- C6
\* C6: a merge that meets no I/O failure leaves its sheet holding exactly the
\* rows the sheet held before (none for a new sheet or file) followed by the
\* rows of the snapshot, so R1 then R2 into a fresh workbook give R1 R2.
C6_MergeAppends ==
    [][CleanMerge(io') =>
          workbook'.sheets[io'.sheet] =
              Sheet(workbook.sheets[io'.sheet].rows \o Snapshot(io').rows)]_vars

\* The second clean merge into Shareholders: the sheet holds earlier rows
\* and the rows just supplied.
C6_Witness ==
    /\ CleanMerge(io)
    /\ io.sheet = MainSheet
    /\ io.sheet_existed
    /\ df_shareholders.rows # <<>>
    /\ Len(workbook.sheets[MainSheet].rows) > Len(df_shareholders.rows)

\* ------------------------------------------------------------- C7
\* C7: a step changes no sheet other than the one a merge of that step
\* targets, whether the merge creates its sheet or rewrites it.
C7_SheetIsolation ==
    [][\A s \in SheetNames :
          s # io'.sheet => workbook'.sheets[s] = workbook.sheets[s]]_vars

\* A merge has just created Historical Shareholders in a workbook whose
\* Shareholders sheet holds rows.
C7_Witness ==
    /\ io.sheet = HistSheet
    /\ ~io.sheet_existed
    /\ ~io.write_raised
    /\ workbook.sheets[HistSheet].rows # <<>>
    /\ workbook.sheets[MainSheet].rows # <<>>

\* ------------------------------------------------------------- C8
\* C8: when run has returned, each sheet holds exactly the rows of the
\* snapshots written into it, in the order of the calls.
C8_TerminalWorkbook ==
    pc = "done" => \A s \in SheetNames : workbook.sheets[s].rows = merged[s]

\* ------------------------------------------------------------- C9
\* C9: no step of the historical attempt changes the Shareholders sheet, a
\* main snapshot that is not None has been passed to the Shareholders merge
\* before the attempt, and an attempt that activates no tab or extracts None
\* makes no Historical Shareholders merge.
C9_HistoricalBestEffort ==
    /\ [](InHistorical \/ pc = "end" =>
            /\ ~df_shareholders.is_none => merge_calls # <<>> /\ merge_calls[1] = MainSheet
            /\ df_shareholders.is_none => MainSheet \notin Range(merge_calls))
    /\ [](pc = "end" /\ (~tab_found \/ df_historical.is_none)
            => HistSheet \notin Range(merge_calls))
    /\ [][InHistorical => workbook'.sheets[MainSheet] = workbook.sheets[MainSheet]]_vars

\* The try body ended with the main snapshot merged and written, and no
\* historical tab found.
C9_Witness ==
    /\ pc = "end"
    /\ ~tab_found
    /\ df_shareholders.rows # <<>>
    /\ merge_calls = <<MainSheet>>
    /\ workbook.sheets[MainSheet].rows # <<>>

\* ------------------------------------------------------------- C10
\* C10: the labels are tried in the order of the list, each once; once a
\* click succeeds no later label is tried and the historical scrape_table
\* call gets the label activated; when every click raises, all labels were
\* tried and neither a historical scrape nor a historical merge is made.
C10_TabFallback ==
    /\ Len(tab_attempts) <= Len(TabLabels)
    /\ \A k \in 1..Len(tab_attempts) : tab_attempts[k] = k
    /\ tab_found => pc # "tabs" /\ tab_text = TabLabels[Len(tab_attempts)]
    /\ caller = "hist" => tab_found /\ table_title = tab_text
    /\ pc = "hist" /\ ~tab_found => Len(tab_attempts) = Len(TabLabels)
    /\ ~tab_found => df_historical.is_none /\ HistSheet \notin Range(merge_calls)

\* Only the second label is there: the historical scrape_table call runs
\* with it after the first click raised.
C10_Witness ==
    /\ pc = "poll"
    /\ caller = "hist"
    /\ tab_attempts = <<1, 2>>
    /\ table_title = TabLabels[2]

\* ------------------------------------------------------------- C11
\* Where a mark of steps stands in an invocation.
Rank(mark) ==
    CASE mark = "main" -> 1
      [] mark = "tab" -> 2
      [] mark = "hist" -> 3
      [] mark = "close" -> 4
      [] mark = "goto" -> 5

\* The value the scrape_table call that has just returned gave its caller.
Returned == IF caller = "main" THEN df_shareholders ELSE df_historical

\* C11: within an invocation the main extraction, the tab clicks, the
\* historical extraction, the close and the goto happen in that order, and a
\* tab click is always preceded by the finished main extraction; the loop
\* moves from company i to company i + 1 only, by the step that ends company
\* i's goto, and a search starts only from the loop.
C11_Ordering ==
    /\ [](\A i, j \in 1..Len(steps) : i < j => Rank(steps[i]) <= Rank(steps[j]))
    /\ []("tab" \in Range(steps) \/ "hist" \in Range(steps) => steps[1] = "main")
    /\ []("hist" \in Range(steps) => "tab" \in Range(steps))
    /\ [](pc \in {"search", "link", "popup", "main"} => steps = <<>>)
    /\ [][idx' # idx =>
            /\ idx' = idx + 1
            /\ "close" \in Range(steps)
            /\ steps' = Append(steps, "goto")]_vars
    /\ [][pc' = "search" /\ pc # "search" =>
            /\ pc = "run"
            /\ idx' = idx
            /\ idx = 1 \/ (steps # <<>> /\ steps[Len(steps)] = "goto")]_vars

\* The first company went through both extractions and both tab clicks
\* before its cleanup, and the loop is at the second company.
C11_Witness ==
    /\ pc = "run"
    /\ idx = 2
    /\ steps = <<"main", "tab", "tab", "hist", "close", "goto">>

\* ------------------------------------------------------------- C12
\* The tr of the markup that have as many td as thead has th.
Kept(html) == {r \in 1..Len(html.tbody) : html.tbody[r] = html.thead}

\* C12: parsing markup that has both sections gives a DataFrame whose rows
\* all have the header count of scraped cells after the two names; they are
\* exactly the tr of matching length, in rendered order, the others being
\* dropped; the step polls no more and reports no failure.
C12_RowShape ==
    [][pc = "parse" =>
          /\ polls' = polls
          /\ failures' = failures
          /\ pc' \in {"main_merge", "hist_merge"}
          /\ table_html.sections =>
                /\ ~Returned'.is_none
                /\ Len(Returned'.rows) = Cardinality(Kept(table_html))
                /\ \A i \in 1..Len(Returned'.rows) :
                      /\ Len(Returned'.rows[i]) = table_html.thead + 2
                      /\ Returned'.rows[i][3] \in Kept(table_html)
                /\ \A i, j \in 1..Len(Returned'.rows) :
                      i < j => Returned'.rows[i][3] < Returned'.rows[j][3]]_vars

\* The main table had three tr, the second one short: the snapshot holds
\* the first and the third.
C12_Witness ==
    /\ pc = "main_merge"
    /\ Len(df_shareholders.rows) = 2
    /\ df_shareholders.rows[1][3] = 1
    /\ df_shareholders.rows[2][3] = 3

\* ------------------------------------------------------------- C13
\* How often label k was clicked in this invocation.
Clicks(k) == Cardinality({i \in 1..Len(tab_attempts) : tab_attempts[i] = k})

\* A scrape_table call has just returned and its frame is still there.
JustReturned == pc \in {"main_merge", "hist_merge"}

C14_MergeFailureNotFatal ==
    /\ [](io.sheet = MainSheet => pc = "tabs")
    /\ [](io.sheet = HistSheet => pc = "end")
    /\ [](io.sheet # "" => idx \notin failures /\ idx \notin fatal)
    /\ [][io'.write_raised => UNCHANGED <<workbook, failures>>]_vars

\* The historical merge of the second company met a writer that raised,
\* after the first company was completed; its try body is at its end.
C14_Witness ==
    /\ pc = "end"
    /\ idx = 2
    /\ 1 \in completed
    /\ io.sheet = HistSheet
    /\ io.write_raised

\* ------------------------------------------------------------- C15
\* C15: a step of scrape_table leads only to another of its steps or back to
\* the call site and reports no failure; a call that ends by a raise of
\* inner_html or on markup without a section returns None; and a None
\* returned is followed by the next statement of the caller without a merge.
C15_ExtractNeverRaises ==
    /\ [][(pc = "poll" \/ pc = "parse") =>
            /\ pc' \in {"poll", "parse", "main_merge", "hist_merge"}
            /\ failures' = failures
            /\ UNCHANGED completed]_vars
    /\ [][pc = "poll" /\ pc' # "poll" /\ pc' # "parse" => Returned' = None]_vars
    /\ [][pc = "parse" /\ ~table_html.sections => Returned' = None]_vars
    /\ [][JustReturned /\ Returned = None =>
            /\ pc' = IF pc = "main_merge" THEN "tabs" ELSE "end"
            /\ merge_calls' = merge_calls
            /\ UNCHANGED workbook]_vars

\* The main table was loaded but had no thead or tbody: None came back and
\* the orchestrator is about to go on to the tab loop.
C15_Witness ==
    /\ pc = "main_merge"
    /\ table_loaded
    /\ df_shareholders = None

\* ------------------------------------------------------------- C16
\* The rows of a sequence that are not in another.
NewRows(after, prior) == {after[i] : i \in 1..Len(after)} \ {prior[i] : i \in 1..Len(prior)}

\* C16: every row of the two snapshots of an invocation starts with the list
\* entry being processed and the text its search resolved, and a step puts
\* into a sheet only rows that start with these two; so every stored row
\* starts with an entry of the list and a resolved text.
C16_IdentifyingColumns ==
    /\ [](\A df \in {df_shareholders, df_historical} : \A i \in 1..Len(df.rows) :
             /\ df.rows[i][1] = company_list[idx]
             /\ df.rows[i][2] = company_name_text
             /\ company_name_text \in MatchedNames)
    /\ [](\A s \in SheetNames : \A i \in 1..Len(workbook.sheets[s].rows) :
             /\ workbook.sheets[s].rows[i][1] \in Range(company_list)
             /\ workbook.sheets[s].rows[i][2] \in MatchedNames)
    /\ [][\A s \in SheetNames :
             \A row \in NewRows(workbook'.sheets[s].rows, workbook.sheets[s].rows) :
                 /\ row[1] = company_list[idx]
                 /\ row[2] = company_name_text]_vars

\* Shareholders holds a row of the first company and, just written, a row
\* of the second, each with its own two names.
C16_Witness ==
    /\ pc = "tabs"
    /\ idx = 2
    /\ io.sheet = MainSheet
    /\ ~io.write_raised
    /\ df_shareholders.rows # <<>>
    /\ LET rows == workbook.sheets[MainSheet].rows
       IN  /\ Len(rows) >= 2
           /\ rows[1][1] = company_list[1]
           /\ rows[Len(rows)][1] = company_list[2]
           /\ rows[1][2] # rows[Len(rows)][2]
           /\ rows[Len(rows)][2] = company_name_text

\* ------------------------------------------------------------- C17
\* How often a row occurs in a sequence.
Count(row, seq) == Cardinality({i \in 1..Len(seq) : seq[i] = row})

\* The snapshot given to the call of the step being taken.
Given == IF io.sheet = MainSheet THEN df_shareholders ELSE df_historical

\* C17: a merge that meets no I/O failure adds every supplied row once more,
\* whether or not the sheet already holds an equal row: each row occurs as
\* often as before plus as often as supplied, and supplying the rows R the
\* sheet holds leaves it holding R followed by R.
C17_NoDeduplication ==
    [][CleanMerge(io') =>
          LET prior == workbook.sheets[io'.sheet].rows
              after == workbook'.sheets[io'.sheet].rows
              R == Given'.rows
          IN  /\ Len(after) = Len(prior) + Len(R)
              /\ \A row \in Range(prior) \cup Range(R) :
                    Count(row, after) = Count(row, prior) + Count(row, R)
              /\ prior = R => after = R \o R]_vars

\* The same rows were merged twice in a row into one sheet, which holds
\* them twice.
C17_Witness ==
    /\ CleanMerge(io)
    /\ io.sheet_existed
    /\ Given.rows # <<>>
    /\ workbook.sheets[io.sheet].rows = Given.rows \o Given.rows

\* ------------------------------------------------------------- C18
\* The rows of a sheet that start with the company being processed.
OwnRows(sheet_name) ==
    {i \in 1..Len(workbook.sheets[sheet_name].rows) :
        workbook.sheets[sheet_name].rows[i][1] = company_list[idx]}

\* C18: when the main scrape_table call returned None the body goes on to
\* the tab labels without a merge, a click on a label can then be made and
\* after a successful click the historical scrape_table call follows; an
\* invocation calls append_to_excel at most once per sheet, Shareholders
\* first.
C18_MainFailureKeepsHistorical ==
    /\ [][pc = "main_merge" /\ df_shareholders.is_none =>
            /\ pc' = "tabs"
            /\ UNCHANGED <<workbook, merge_calls>>]_vars
    /\ [](pc = "tabs" /\ df_shareholders.is_none => ENABLED TabActivates)
    /\ [](pc = "hist" /\ tab_found /\ df_shareholders.is_none => ENABLED ScrapeHist)
    /\ [](merge_calls \in {<<>>, <<MainSheet>>, <<HistSheet>>, <<MainSheet, HistSheet>>})
    /\ [][merge_calls' # merge_calls /\ merge_calls' # <<>> =>
            /\ merge_calls' = Append(merge_calls, io'.sheet)
            /\ io'.sheet = IF pc = "main_merge" THEN MainSheet ELSE HistSheet]_vars

\* The company's main call returned None and its historical rows were
\* written: it has rows in Historical Shareholders and none in Shareholders.
C18_Witness ==
    /\ pc = "end"
    /\ df_shareholders.is_none
    /\ merge_calls = <<HistSheet>>
    /\ io.sheet = HistSheet
    /\ ~io.write_raised
    /\ OwnRows(HistSheet) # {}
    /\ OwnRows(MainSheet) = {}

\* ------------------------------------------------------------- C19
\* The seconds a scrape_table call has slept so far.
Waited == sleeps * SleepSeconds

\* C19: while the loop runs every poll so far saw the placeholder and was
\* followed by a sleep; the poll that first sees no placeholder is not
\* followed by one, so parsing starts after k polls and k - 1 sleeps with
\* k in 1..5, and parses the markup that poll fetched without another poll;
\* a call whose five polls all saw the placeholder returns None after 5
\* polls and 5 sleeps, 10 seconds.
C19_PollsAndPauses ==
    /\ [](pc = "poll" => polls = retries /\ sleeps = polls /\ ~table_loaded /\ table_html.loading)
    /\ [](pc = "parse" =>
            /\ table_loaded
            /\ ~table_html.loading
            /\ polls \in 1..max_retries
            /\ sleeps = polls - 1
            /\ Waited = SleepSeconds * (polls - 1))
    /\ [][pc = "parse" =>
            /\ polls' = polls
            /\ sleeps' = sleeps
            /\ Returned' = parse_table(table_html, company_list[idx], company_name_text)]_vars
    /\ [](JustReturned /\ ~table_loaded /\ polls = retries =>
            /\ polls = 5
            /\ sleeps = 5
            /\ Waited = 10
            /\ Returned = None)

\* The placeholder was first absent on the fifth poll: five polls, four
\* sleeps, and the markup is about to be parsed.
C19_Witness ==
    /\ pc = "parse"
    /\ polls = 5
    /\ sleeps = 4
    /\ table_html.sections

====
